---- MODULE Spec2Model ----
(***************************************************************************)
(* Model of the slice-boundary selection core of reelpdf                   *)
(* (src/src/lib/whitespaceDetector.ts): row classification, gap finding,   *)
(* cut-point selection, the even-spacing fallback and the conversion of    *)
(* cut points into slices.                                                 *)
(*                                                                         *)
(* Number representation.  The code works on JavaScript doubles.  Every    *)
(* quantity the model feeds it is an integer or a half-integer, so:        *)
(*   - a name ending in 2 holds TWICE the source value (half-pixel units): *)
(*     centerY2 = 2*centerY, lastCut2 = 2*lastCut, targetSliceHeight2 =    *)
(*     2*targetSliceHeight, current2 = 2*current;                          *)
(*   - whitespaceThreshold and centerBias are held in hundredths           *)
(*     (95 for 0.95, 20 for 0.2);                                          *)
(*   - a score is the exact fraction [num, den], den > 0.                  *)
(* The comparisons of the code are cross-multiplied into integers.  For    *)
(* these inputs the double results agree with the exact ones: x*0.5 is     *)
(* exact, and x*0.3 is within 2^-54 relative of 3x/10, so it equals 3x/10  *)
(* whenever that is representable and otherwise differs from any           *)
(* half-integer it is compared with by at least 0.05.                      *)
(***************************************************************************)
EXTENDS Integers, Sequences, FiniteSets, TLC

VARIABLES
    caller,               \* which exported function was called
    imageData,            \* the ImageData argument: [width, height, data]
    viewportHeight,       \* analyzePageForSlicing argument (0 when unused)
    scale,                \* analyzePageForSlicing argument (0 when unused)
    targetSliceHeight2,   \* twice findCutPoints' targetSliceHeight
    config,               \* findCutPoints' Partial<DetectionConfig> argument
    pc,                   \* position inside the call
    whitespaceRows,       \* findCutPoints local: boolean[] (1-based here)
    gaps,                 \* findCutPoints local: WhitespaceGap[]
    cutPoints,            \* the value findCutPoints returned
    slices,               \* the value analyzePageForSlicing returned
    defaultConfig,        \* contents of the module-level DEFAULT_CONFIG object
    callLog,              \* history: arguments and result of each finished call
    view,                 \* App state: 'upload' | 'processing' | 'reader'
    document,             \* App state: DocumentState | null
    error,                \* App state: error message | null
    entry,                \* which function the environment called
    hpc,                  \* position inside handleFileSelect / processDocumentSlices
    file,                 \* the file being handled: [id, pages]
    innerHeight,          \* window.innerHeight (viewportHeight of the run)
    store,                \* the 'slices' object store: set of stored records
    pageIdx,              \* processDocumentSlices local
    sliceIdx,             \* processDocumentSlices local
    sliceBounds,          \* processDocumentSlices local
    allSlices,            \* processDocumentSlices local (its return value)
    globalIndex,          \* processDocumentSlices local
    events,               \* history: progress events the callback received
    completed,            \* history: results of the runs that returned
    selects,              \* history: number of runs started
    dbInstance,           \* storage.ts module variable: connection | null
    openCalls,            \* history: number of openDB invocations
    dbpc,                 \* position of each storage operation inside getDB
    dbGot                 \* the connection getDB returned to each operation

vars == <<caller, imageData, viewportHeight, scale, targetSliceHeight2, config,
          pc, whitespaceRows, gaps, cutPoints, slices, defaultConfig, callLog,
          view, document, error, entry, hpc, file, innerHeight, store, pageIdx,
          sliceIdx, sliceBounds, allSlices, globalIndex, events, completed,
          selects, dbInstance, openCalls, dbpc, dbGot>>

\* the variables of the detector, of the application around it, and of getDB
detVars == <<caller, imageData, viewportHeight, scale, targetSliceHeight2, config,
             pc, whitespaceRows, gaps, cutPoints, slices, defaultConfig, callLog>>

appVars == <<view, document, error, entry, hpc, file, innerHeight, store, pageIdx,
             sliceIdx, sliceBounds, allSlices, globalIndex, events, completed,
             selects>>

dbVars == <<dbInstance, openCalls, dbpc, dbGot>>

----------------------------------------------------------------------------
(* Bounds of the model *)

MaxH == 5          \* tallest page of the small-page family
MaxT == 7          \* largest target slice height tried on the small pages
MaxCalls == 3      \* calls made one after another on the same loaded module

\* Number of tests of the loop condition of generateEvenCuts after which the
\* loop is taken never to exit.  For a doubled target >= 1 the loop body runs
\* fewer than 2*height times, so the condition is found false within
\* 2*height + 1 tests; for a target <= 0 the counter never grows.
ArrayLimit(height) == 2 * height + 2

----------------------------------------------------------------------------
(* Configuration *)

ConfigFields == {"whitespaceThreshold", "minGapHeight", "edgeMargin", "centerBias"}

DEFAULT_CONFIG ==
    [whitespaceThreshold |-> 95, minGapHeight |-> 15, edgeMargin |-> 50, centerBias |-> 20]

\* { ...DEFAULT_CONFIG, ...config }: an override is a function over a subset
\* of the field names
mergedConfig(cfg) ==
    [f \in ConfigFields |-> IF f \in DOMAIN cfg THEN cfg[f] ELSE DEFAULT_CONFIG[f]]

\* line 129 seen as a statement on the three objects involved: Object.assign
\* onto the defaults object instead of the spread into a fresh literal
spreadConfig_assign(defaults, cfg) ==
    LET m == [f \in ConfigFields |->
                 IF f \in DOMAIN cfg THEN cfg[f] ELSE defaults[f]]
    IN [merged |-> m, defaults |-> m, overrides |-> cfg]

\* line 129 seen as a statement on the three objects involved: the spread
\* builds a fresh object and leaves DEFAULT_CONFIG and the caller's override
\* object as they were
spreadConfig(defaults, cfg) ==
    [merged    |-> [f \in ConfigFields |->
                       IF f \in DOMAIN cfg THEN cfg[f] ELSE defaults[f]],
     defaults  |-> defaults,
     overrides |-> cfg]

----------------------------------------------------------------------------
(* Row classification *)

\* brightness > 0.9 with brightness = (r + g + b) / 3 / 255
isWhitePixel(r, g, b) == 10 * (r + g + b) > 9 * 3 * 255

RECURSIVE countWhite(_, _, _)
countWhite(img, y, x) ==
    IF x >= img.width THEN 0
    ELSE LET idx == y * img.width * 4 + x * 4
             r == img.data[idx + 1]
             g == img.data[idx + 2]
             b == img.data[idx + 3]
         IN (IF isWhitePixel(r, g, b) THEN 1 ELSE 0) + countWhite(img, y, x + 1)

\* the pixel loop with the channel offsets one too far: G, B and alpha
RECURSIVE countWhite_shifted(_, _, _)
countWhite_shifted(img, y, x) ==
    IF x >= img.width THEN 0
    ELSE LET idx == y * img.width * 4 + x * 4
             r == img.data[idx + 2]
             g == img.data[idx + 3]
             b == img.data[idx + 4]
         IN (IF isWhitePixel(r, g, b) THEN 1 ELSE 0)
                + countWhite_shifted(img, y, x + 1)

analyzeRow_shifted(img, y) ==
    [whitePx |-> countWhite_shifted(img, y, 0), width |-> img.width]

\* analyzeRow returns whitePx / width; the model returns the pair
analyzeRow(img, y) == [whitePx |-> countWhite(img, y, 0), width |-> img.width]

\* the comparison made strict
isWhitespaceRow_strict(ratio, cfg) == 100 * ratio.whitePx > cfg.whitespaceThreshold * ratio.width

\* brightnessRatio >= config.whitespaceThreshold
isWhitespaceRow(ratio, cfg) == 100 * ratio.whitePx >= cfg.whitespaceThreshold * ratio.width

detectWhitespaceRows(img, cfg) ==
    [y1 \in 1..img.height |-> isWhitespaceRow(analyzeRow(img, y1 - 1), cfg)]

----------------------------------------------------------------------------
(* Gap finding *)

NoGap == -1        \* gapStart === null

Abs(n) == IF n < 0 THEN -n ELSE n
Min(a, b) == IF a < b THEN a ELSE b

\* (mutation of gapTallEnough: the comparison made strict)
gapTallEnough_strict(gapHeight, cfg) == gapHeight > cfg.minGapHeight

\* gapHeight >= config.minGapHeight
gapTallEnough(gapHeight, cfg) == gapHeight >= cfg.minGapHeight

\* (mutation of gapInsideMargins: the bottom margin left unchecked)
gapInsideMargins_topOnly(centerY2, pageHeight, cfg) == centerY2 > 2 * cfg.edgeMargin

\* centerY > config.edgeMargin && centerY < pageHeight - config.edgeMargin
gapInsideMargins(centerY2, pageHeight, cfg) ==
    /\ centerY2 > 2 * cfg.edgeMargin
    /\ centerY2 < 2 * (pageHeight - cfg.edgeMargin)

\* sizeScore * centerScore as an exact fraction (the double the code computes
\* is the nearest one to it up to three roundings):
\*   sizeScore   = min(gapHeight / 50, 1)           = min(gapHeight, 50) / 50
\*   centerScore = 1 - |centerY/pageHeight - 0.5| * centerBias
\*               = (200*pageHeight - |centerY2 - pageHeight| * bias100) / (200*pageHeight)
gapScore(gapHeight, centerY2, pageHeight, cfg) ==
    [num |-> Min(gapHeight, 50)
               * (200 * pageHeight - Abs(centerY2 - pageHeight) * cfg.centerBias),
     den |-> 50 * 200 * pageHeight]

makeGap(gapStart, y, pageHeight, cfg) ==
    LET gapHeight == y - gapStart
        centerY2 == 2 * gapStart + gapHeight
    IN [startY |-> gapStart, endY |-> y, height |-> gapHeight, centerY2 |-> centerY2,
        score |-> gapScore(gapHeight, centerY2, pageHeight, cfg)]

\* the iteration without "gapStart = null" after a run is closed
findGapsStep_noReset(st, rows, pageHeight, cfg) ==
    IF rows[st.y + 1]
    THEN [st EXCEPT !.y = @ + 1,
                    !.gapStart = IF @ = NoGap THEN st.y ELSE @]
    ELSE IF st.gapStart # NoGap
         THEN LET g == makeGap(st.gapStart, st.y, pageHeight, cfg)
                  keep == /\ gapTallEnough(g.height, cfg)
                          /\ gapInsideMargins(g.centerY2, pageHeight, cfg)
              IN [y |-> st.y + 1, gapStart |-> st.gapStart,
                  gaps |-> IF keep THEN Append(st.gaps, g) ELSE st.gaps]
         ELSE [st EXCEPT !.y = @ + 1]

\* one iteration of the for loop of findGaps; the state of the loop is
\* st = [y, gapStart, gaps] with y 0-based
findGapsStep(st, rows, pageHeight, cfg) ==
    IF rows[st.y + 1]
    THEN [st EXCEPT !.y = @ + 1,
                    !.gapStart = IF @ = NoGap THEN st.y ELSE @]
    ELSE IF st.gapStart # NoGap
         THEN LET g == makeGap(st.gapStart, st.y, pageHeight, cfg)
                  keep == /\ gapTallEnough(g.height, cfg)
                          /\ gapInsideMargins(g.centerY2, pageHeight, cfg)
              IN [y |-> st.y + 1, gapStart |-> NoGap,
                  gaps |-> IF keep THEN Append(st.gaps, g) ELSE st.gaps]
         ELSE [st EXCEPT !.y = @ + 1]

\* up to n consecutive iterations of the loop, while y < whitespaceRows.length
\* (the count is halved only to keep the evaluation shallow on tall pages)
RECURSIVE findGapsSteps(_, _, _, _, _)
findGapsSteps(st, rows, pageHeight, cfg, n) ==
    IF n <= 0 \/ st.y >= Len(rows) THEN st
    ELSE IF n = 1 THEN findGapsStep(st, rows, pageHeight, cfg)
    ELSE LET first == findGapsSteps(st, rows, pageHeight, cfg, n \div 2)
         IN findGapsSteps(first, rows, pageHeight, cfg, n - (n \div 2))

\* the loop followed by a flush of the run still open at the last row
findGaps_flush(rows, pageHeight, cfg) ==
    LET st == findGapsSteps([y |-> 0, gapStart |-> NoGap, gaps |-> <<>>],
                            rows, pageHeight, cfg, Len(rows))
        g  == makeGap(st.gapStart, Len(rows), pageHeight, cfg)
    IN IF /\ st.gapStart # NoGap
          /\ gapTallEnough(g.height, cfg)
          /\ gapInsideMargins(g.centerY2, pageHeight, cfg)
       THEN Append(st.gaps, g)
       ELSE st.gaps

findGaps(rows, pageHeight, cfg) ==
    findGapsSteps([y |-> 0, gapStart |-> NoGap, gaps |-> <<>>],
                  rows, pageHeight, cfg, Len(rows)).gaps

----------------------------------------------------------------------------
(* Cut-point selection *)

\* Math.round of a half-integer held doubled (halves round towards +infinity)
\* Math.floor in place of Math.round
Round2_floor(n2) == n2 \div 2

Round2(n2) == (n2 + 1) \div 2

\* (mutation of evenLoopContinues: the 0.3 * targetHeight allowance dropped)
evenLoopContinues_noAllowance(current2, height, targetHeight2) ==
    10 * current2 < 20 * height

\* while (current < height - targetHeight * 0.3)
evenLoopContinues(current2, height, targetHeight2) ==
    10 * current2 < 20 * height - 3 * targetHeight2

\* one test of the while condition of generateEvenCuts and, when it holds,
\* one execution of the body; the state of the loop is st = [cuts, current2]
\* and st.exited records that the condition was found false
evenStep(st, height, targetHeight2) ==
    IF evenLoopContinues(st.current2, height, targetHeight2)
    THEN [cuts |-> Append(st.cuts, Round2(st.current2)),
          current2 |-> st.current2 + targetHeight2,
          exited |-> FALSE]
    ELSE [st EXCEPT !.exited = TRUE]

\* up to n consecutive tests of the while condition (halved as above)
RECURSIVE evenSteps(_, _, _, _)
evenSteps(st, height, targetHeight2, n) ==
    IF n <= 0 \/ st.exited THEN st
    ELSE IF n = 1 THEN evenStep(st, height, targetHeight2)
    ELSE LET first == evenSteps(st, height, targetHeight2, n \div 2)
         IN evenSteps(first, height, targetHeight2, n - (n \div 2))

\* generateEvenCuts: the loop, then cuts.push(height).  A loop that has not
\* exited after ArrayLimit tests never exits: the result then has
\* returned = FALSE and carries the cuts pushed so far.
generateEvenCuts(height, targetHeight2) ==
    LET st == evenSteps([cuts |-> <<0>>, current2 |-> targetHeight2, exited |-> FALSE],
                        height, targetHeight2, ArrayLimit(height))
    IN IF st.exited
       THEN [returned |-> TRUE, cuts |-> Append(st.cuts, height)]
       ELSE [returned |-> FALSE, cuts |-> st.cuts]

\* [...gaps].sort((a, b) => a.centerY - b.centerY): a stable insertion sort
RECURSIVE insertGap(_, _)
insertGap(sorted, g) ==
    IF sorted = <<>> THEN <<g>>
    ELSE LET last == sorted[Len(sorted)]
         IN IF last.centerY2 - g.centerY2 > 0
            THEN Append(insertGap(SubSeq(sorted, 1, Len(sorted) - 1), g), last)
            ELSE Append(sorted, g)

RECURSIVE sortGaps(_)
sortGaps(gs) ==
    IF gs = <<>> THEN <<>>
    ELSE insertGap(sortGaps(SubSeq(gs, 1, Len(gs) - 1)), gs[Len(gs)])

\* a factor of 0.4 in place of 0.5
farEnough_short(distance2, targetHeight2) == 10 * distance2 >= 4 * targetHeight2

\* the threshold the code comment says it was reduced from: 0.7
farEnough_old(distance2, targetHeight2) == 10 * distance2 >= 7 * targetHeight2

\* distanceFromLastCut >= targetSliceHeight * 0.5
farEnough(distance2, targetHeight2) == 2 * distance2 >= targetHeight2

\* the else-if condition without its distance test
tooFar_scoreOnly(distance2, targetHeight2, score) == 5 * score.num > score.den

\* distanceFromLastCut >= targetSliceHeight * 1.0 && gap.score > 0.2
tooFar(distance2, targetHeight2, score) ==
    /\ distance2 >= targetHeight2
    /\ 5 * score.num > score.den

\* the for loop over sortedGaps, from index i (1-based) on; the state of the
\* loop is st = [cutPoints, lastCut2].  st.accepted is not in the code: it
\* records the (doubled) centres of the gaps the loop turned into cuts, and
\* st.forced those among them that came through the else-if branch.
RECURSIVE selectFrom(_, _, _, _)
selectFrom(sortedGaps, i, targetHeight2, st) ==
    IF i > Len(sortedGaps) THEN st
    ELSE LET gap == sortedGaps[i]
             distance2 == gap.centerY2 - st.lastCut2
             cut == [cutPoints |-> Append(st.cutPoints, Round2(gap.centerY2)),
                     lastCut2 |-> gap.centerY2,
                     accepted |-> Append(st.accepted, gap.centerY2),
                     forced |-> st.forced]
             force == [cut EXCEPT !.forced = Append(@, gap.centerY2)]
         IN IF farEnough(distance2, targetHeight2)
            THEN selectFrom(sortedGaps, i + 1, targetHeight2, cut)
            ELSE IF tooFar(distance2, targetHeight2, gap.score)
                 THEN selectFrom(sortedGaps, i + 1, targetHeight2, force)
                 ELSE selectFrom(sortedGaps, i + 1, targetHeight2, st)

\* the loop run from its initial state: cutPoints = [0], lastCut = 0
selectGaps(gs, targetHeight2) ==
    selectFrom(sortGaps(gs), 1, targetHeight2,
               [cutPoints |-> <<0>>, lastCut2 |-> 0, accepted |-> <<>>,
                forced |-> <<>>])

\* height - lastCut > targetSliceHeight * 0.3
appendPageEnd(height, lastCut2, targetHeight2) ==
    20 * height - 10 * lastCut2 > 3 * targetHeight2

\* "Add final cut at page end"
finalCut(cuts, lastCut2, height, targetHeight2) ==
    IF appendPageEnd(height, lastCut2, targetHeight2)
    THEN Append(cuts, height)
    ELSE [cuts EXCEPT ![Len(cuts)] = height]

\* findCutPoints after the detector has run (lines 138-174)
selectCutPoints(gs, height, targetHeight2) ==
    IF Len(gs) = 0
    THEN generateEvenCuts(height, targetHeight2)
    ELSE LET sel == selectGaps(gs, targetHeight2)
         IN [returned |-> TRUE,
             cuts |-> finalCut(sel.cutPoints, sel.lastCut2, height, targetHeight2)]

\* the whole of findCutPoints, as a function of its arguments
findCutPoints(img, targetHeight2, cfg) ==
    LET merged == mergedConfig(cfg)
        rows == detectWhitespaceRows(img, merged)
    IN selectCutPoints(findGaps(rows, img.height, merged), img.height, targetHeight2)

\* the loop of analyzePageForSlicing over consecutive cut points
slicesOf(cuts) ==
    [i \in 1..(Len(cuts) - 1) |-> [startY |-> cuts[i], endY |-> cuts[i + 1]]]

\* viewportHeight * scale * 0.50, doubled
targetOfViewport(vh, sc) == vh * sc

----------------------------------------------------------------------------
(* Inputs *)

WhitePixel == <<255, 255, 255, 255>>
DarkPixel == <<0, 0, 0, 255>>

\* a row of the given width: all white, all dark, or white with a dark first pixel
RowKinds == {"white", "dark", "speck"}

pixelOf(kind, x) ==
    IF kind = "white" \/ (kind = "speck" /\ x > 0) THEN WhitePixel ELSE DarkPixel

\* ImageData with data[row * width * 4 + col * 4 + channel] (1-based here)
imageOf(width, kinds) ==
    [width |-> width, height |-> Len(kinds),
     data |-> [i \in 1..(4 * width * Len(kinds)) |->
                  LET k == i - 1
                      y == k \div (4 * width)
                      x == (k % (4 * width)) \div 4
                  IN pixelOf(kinds[y + 1], x)[(k % 4) + 1]]]

SmallWidth == 2

SmallImages ==
    {imageOf(SmallWidth, kinds) : kinds \in UNION {[1..h -> RowKinds] : h \in 0..MaxH}}

\* single rows given pixel by pixel: white, black, and the two greys on either
\* side of brightness 0.9 (R+G+B = 688 and 689), each opaque or transparent
Palette ==
    {<<c[1], c[2], c[3], a>> :
        c \in {<<255, 255, 255>>, <<0, 0, 0>>, <<229, 229, 230>>, <<229, 230, 230>>},
        a \in {0, 255}}

rowImage(pixels) ==
    [width |-> Len(pixels), height |-> 1,
     data |-> [i \in 1..(4 * Len(pixels)) |->
                  pixels[((i - 1) \div 4) + 1][((i - 1) % 4) + 1]]]

PixelWidth == 2

PixelImages ==
    {rowImage(px) : px \in UNION {[1..w -> Palette] : w \in 1..PixelWidth}}

\* a white row of width w whose pixel number x alone is dark
speckRow(w, x) == [i \in 1..w |-> IF i = x THEN DarkPixel ELSE WhitePixel]

MaxWide == 21

WideImages ==
    {rowImage(speckRow(w, x)) : w \in 1..MaxWide, x \in {1, (MaxWide + 1) \div 2}}

RowImages == PixelImages \cup WideImages

RowTargets == {4}

RowConfigs ==
    {<<>>, [whitespaceThreshold |-> 0], [whitespaceThreshold |-> 50],
     [whitespaceThreshold |-> 100]}

\* the two 1000-row pages of the worked scenarios: all whitespace, and solid
\* content with two 20-row whitespace bands centred at 300 and 700
ScenarioA == imageOf(1, [y \in 1..1000 |-> "white"])

ScenarioB ==
    imageOf(1, [y \in 1..1000 |->
                   IF (y - 1) \in 290..309 \/ (y - 1) \in 690..709
                   THEN "white" ELSE "dark"])

ScenarioImages == {ScenarioA, ScenarioB}

\* targets 300 and 350
ScenarioTargets == {600, 700}

\* doubled target slice heights: whole numbers of pixels, among them the
\* degenerate 0 and -1
SmallTargets == {2 * t : t \in -1..MaxT}

\* overrides passed to findCutPoints: none, a partial one and full ones
SmallConfigs ==
    {<<>>} \cup {[minGapHeight |-> 1, edgeMargin |-> 0]}
    \cup {[whitespaceThreshold |-> 0, minGapHeight |-> 1, edgeMargin |-> 0, centerBias |-> 20]}
    \cup {[whitespaceThreshold |-> 100, minGapHeight |-> 1, edgeMargin |-> 0, centerBias |-> 400]}
    \cup [whitespaceThreshold : {50, 100}, minGapHeight : {1, 2},
          edgeMargin : {0, 2}, centerBias : {20}]

\* rendered pages: dark pages of one pixel width with full-width white bands
Band(start, height) == [start |-> start, height |-> height]

TallBands ==
    {Band(0, 20), Band(55, 10), Band(50, 20), Band(50, 21), Band(100, 20),
     Band(200, 40), Band(260, 20)}

TallHeights == {120, 300}

tallKinds(h, bands) ==
    [y1 \in 1..h |->
        IF \E b \in bands : b.start <= y1 - 1 /\ y1 - 1 < b.start + b.height
        THEN "white" ELSE "dark"]

TallImages ==
    {imageOf(1, tallKinds(h, bands)) :
        h \in TallHeights, bands \in {bs \in SUBSET TallBands : Cardinality(bs) <= 2}}

Viewports == {0, 40, 45, 99, 100, 110, 400}
Scales == {1, 2}

----------------------------------------------------------------------------
(* The calls *)

NoDocument == [id |-> <<>>, slices |-> <<>>, fromCache |-> FALSE, isNull |-> TRUE]
NoFile == [id |-> <<>>, pages |-> <<>>]
NoConnection == 0

\* the application as loaded: upload view, nothing selected, nothing stored
AppLoaded ==
    /\ view = "upload"
    /\ document = NoDocument
    /\ error = FALSE
    /\ entry = "none"
    /\ hpc = "idle"
    /\ file = NoFile
    /\ innerHeight = 0
    /\ store = {}
    /\ pageIdx = 0
    /\ sliceIdx = 0
    /\ sliceBounds = <<>>
    /\ allSlices = <<>>
    /\ globalIndex = 0
    /\ events = <<>>
    /\ completed = {}
    /\ selects = 0

\* storage.ts as loaded: let dbInstance = null (line 62), no operation started
StorageLoaded ==
    /\ dbInstance = NoConnection
    /\ openCalls = 0
    /\ dbpc = <<>>
    /\ dbGot = <<>>

Init ==
    /\ pc = "call"
    /\ AppLoaded
    /\ StorageLoaded
    /\ defaultConfig = DEFAULT_CONFIG
    /\ callLog = <<>>
    /\ whitespaceRows = <<>>
    /\ gaps = <<>>
    /\ cutPoints = <<>>
    /\ slices = <<>>
    /\ \/ /\ caller = "findCutPoints"
          /\ imageData \in SmallImages
          /\ targetSliceHeight2 \in SmallTargets
          /\ config \in SmallConfigs
          /\ viewportHeight = 0
          /\ scale = 0
       \/ /\ caller = "findCutPoints"
          /\ imageData \in RowImages
          /\ targetSliceHeight2 \in RowTargets
          /\ config \in RowConfigs
          /\ viewportHeight = 0
          /\ scale = 0
       \/ /\ caller = "findCutPoints"
          /\ imageData \in ScenarioImages
          /\ targetSliceHeight2 \in ScenarioTargets
          /\ config = <<>>
          /\ viewportHeight = 0
          /\ scale = 0
       \/ /\ caller = "analyzePageForSlicing"
          /\ imageData \in TallImages
          /\ viewportHeight \in Viewports
          /\ scale \in Scales
          /\ targetSliceHeight2 = 0
          /\ config = <<>>

\* analyzePageForSlicing, lines 203-205: compute the target and call
\* findCutPoints with the default configuration
EnterAnalyzePage ==
    /\ pc = "call"
    /\ caller = "analyzePageForSlicing"
    /\ targetSliceHeight2' = targetOfViewport(viewportHeight, scale)
    /\ pc' = "findCutPoints"
    /\ UNCHANGED <<appVars, dbVars, defaultConfig, callLog, caller, imageData, viewportHeight, scale, config,
                   whitespaceRows, gaps, cutPoints, slices>>

\* findCutPoints, lines 129-133
DetectRows ==
    /\ \/ pc = "call" /\ caller = "findCutPoints"
       \/ pc = "findCutPoints"
    /\ whitespaceRows' = detectWhitespaceRows(imageData, mergedConfig(config))
    /\ pc' = "rows"
    /\ UNCHANGED <<appVars, dbVars, defaultConfig, callLog, caller, imageData, viewportHeight, scale, targetSliceHeight2,
                   config, gaps, cutPoints, slices>>

\* findCutPoints, line 136
FindGaps ==
    /\ pc = "rows"
    /\ gaps' = findGaps(whitespaceRows, imageData.height, mergedConfig(config))
    /\ pc' = "gaps"
    /\ UNCHANGED <<appVars, dbVars, defaultConfig, callLog, caller, imageData, viewportHeight, scale, targetSliceHeight2,
                   config, whitespaceRows, cutPoints, slices>>

\* findCutPoints, lines 138-141: the even-spacing fallback
EvenCuts ==
    /\ pc = "gaps"
    /\ Len(gaps) = 0
    /\ LET r == selectCutPoints(gaps, imageData.height, targetSliceHeight2)
       IN /\ cutPoints' = r.cuts
          /\ pc' = IF r.returned THEN "done" ELSE "hung"
    /\ UNCHANGED <<appVars, dbVars, defaultConfig, callLog, caller, imageData, viewportHeight, scale, targetSliceHeight2,
                   config, whitespaceRows, gaps, slices>>

\* findCutPoints, lines 143-174: the greedy pass over the gaps
SelectCuts ==
    /\ pc = "gaps"
    /\ Len(gaps) # 0
    /\ LET r == selectCutPoints(gaps, imageData.height, targetSliceHeight2)
       IN /\ cutPoints' = r.cuts
          /\ pc' = IF r.returned THEN "done" ELSE "hung"
    /\ UNCHANGED <<appVars, dbVars, defaultConfig, callLog, caller, imageData, viewportHeight, scale, targetSliceHeight2,
                   config, whitespaceRows, gaps, slices>>

\* analyzePageForSlicing, lines 207-216
BuildSlices ==
    /\ pc = "done"
    /\ caller = "analyzePageForSlicing"
    /\ slices' = slicesOf(cutPoints)
    /\ pc' = "sliced"
    /\ UNCHANGED <<appVars, dbVars, defaultConfig, callLog, caller, imageData, viewportHeight, scale, targetSliceHeight2,
                   config, whitespaceRows, gaps, cutPoints>>

Next ==
    \/ EnterAnalyzePage
    \/ DetectRows
    \/ FindGaps
    \/ EvenCuts
    \/ SelectCuts
    \/ BuildSlices

Spec == Init /\ [][Next]_vars

----------------------------------------------------------------------------
(* Shorthands for the properties *)

H == imageData.height
T2 == targetSliceHeight2
cfgUsed == mergedConfig(config)

\* findCutPoints has returned
Returned == pc \in {"done", "sliced"}

\* the call of findCutPoints is over: it returned, or its loop never exits
Finished == pc \in {"done", "sliced", "hung"}

\* the detector has run
Detected == pc \in {"gaps", "done", "sliced", "hung"}

StrictlyIncreasing(seq) == \A i \in 1..(Len(seq) - 1) : seq[i] < seq[i + 1]

\* at least two elements, strictly increasing, from 0 to the page height
WellFormedCuts(seq, height) ==
    /\ Len(seq) >= 2
    /\ seq[1] = 0
    /\ seq[Len(seq)] = height
    /\ StrictlyIncreasing(seq)

\* the configuration is one the data model admits
ValidConfig(cfg) ==
    /\ cfg.whitespaceThreshold \in 0..100
    /\ cfg.minGapHeight >= 0
    /\ cfg.edgeMargin >= 0
    /\ cfg.centerBias >= 0

\* the gap path ended with an accepted-cut list that is empty
NoGapAccepted == Len(gaps) > 0 /\ selectGaps(gaps, T2).accepted = <<>>

\* the loop of generateEvenCuts is cut off only where it really never exits:
\* on the even-spacing path with a target <= 0 and the loop condition true
HungOnlyOnDegenerateTarget ==
    pc = "hung" =>
        /\ Len(gaps) = 0
        /\ T2 <= 0
        /\ evenLoopContinues(T2, H, T2)

----------------------------------------------------------------------------
(* C1 *)

\* C1: for every page with H > 0, every target T > 0 and every valid config,
\* findCutPoints returns at least two cut points, strictly increasing, the
\* first 0 and the last H, on the gap path and on the even-spacing path,
\* also when no gap is accepted and H <= 0.3*T.
C1_CutPointsWellFormed ==
    (Finished /\ H > 0 /\ T2 > 0 /\ ValidConfig(cfgUsed))
        => (Returned /\ WellFormedCuts(cutPoints, H))

----------------------------------------------------------------------------
(* C2 *)

\* the slices tile [0, height]: at least one, none empty, each starting
\* where the previous one ends
TilesPage(sl, height) ==
    /\ Len(sl) >= 1
    /\ sl[1].startY = 0
    /\ sl[Len(sl)].endY = height
    /\ \A i \in 1..Len(sl) : sl[i].startY < sl[i].endY
    /\ \A i \in 1..(Len(sl) - 1) : sl[i].endY = sl[i + 1].startY

\* C2: for every page with H > 0 and viewportHeight > 0 (default scale 2),
\* analyzePageForSlicing returns at least one slice and the slices tile the
\* page exactly, without gap, overlap or empty slice.
C2_SlicesTilePage ==
    (pc = "sliced" /\ H > 0 /\ viewportHeight > 0 /\ scale = 2)
        => TilesPage(slices, H)

----------------------------------------------------------------------------
(* C3 *)

\* C3: findCutPoints terminates on every input, also for T = 0 and T < 0 on a
\* page without gaps: the loop of generateEvenCuts always reaches its exit.
C3_AlwaysTerminates == pc # "hung"

----------------------------------------------------------------------------
(* C4 *)

\* C4: for degenerate inputs, H = 0 (any T) or T <= 0 (any page, with or
\* without gaps), findCutPoints returns exactly [0, H].
C4_DegenerateMinimal ==
    (Finished /\ (H = 0 \/ T2 <= 0))
        => (Returned /\ cutPoints = <<0, H>>)

----------------------------------------------------------------------------
(* C5 *)

\* C5: whenever T > H > 0, findCutPoints returns exactly [0, H], whether or
\* not gaps are detected.
C5_TargetAbovePage ==
    (Finished /\ H > 0 /\ T2 > 2 * H)
        => (Returned /\ cutPoints = <<0, H>>)

----------------------------------------------------------------------------
(* C6 *)

\* no pixel of the buffer is white
AllNonWhite(img) ==
    \A k \in 0..(img.width * img.height - 1) :
        ~isWhitePixel(img.data[4 * k + 1], img.data[4 * k + 2], img.data[4 * k + 3])

\* the largest k >= 0 with k*T < H - 0.3*T (0 when there is none), for a
\* whole number of pixels T = targetHeight2 / 2
LastEvenMultiple(height, targetHeight2) ==
    LET T == targetHeight2 \div 2
        ks == {k \in 0..height : 10 * k * T < 10 * height - 3 * T}
    IN IF ks = {} THEN 0 ELSE CHOOSE k \in ks : \A j \in ks : j <= k

\* 0, T, 2T, ..., kT, H
EvenlySpaced(height, targetHeight2) ==
    LET T == targetHeight2 \div 2
        k == LastEvenMultiple(height, targetHeight2)
    IN <<0>> \o [j \in 1..k |-> j * T] \o <<height>>

\* C6: on an entirely non-white buffer the detector finds no gap and, for a
\* whole T > 0 and H > 0, findCutPoints returns exactly 0, T, 2T, ..., kT, H
\* with k the largest integer with k*T < H - 0.3*T; every slice but the last
\* is T tall and, when k >= 1, the last one is in (0.3*T, 1.3*T].
C6_NonWhiteEvenCuts ==
    (Finished /\ H > 0 /\ T2 > 0 /\ T2 % 2 = 0 /\ AllNonWhite(imageData))
        => /\ gaps = <<>>
           /\ Returned
           /\ cutPoints = EvenlySpaced(H, T2)
           /\ \A i \in 1..(Len(cutPoints) - 2) : 2 * (cutPoints[i + 1] - cutPoints[i]) = T2
           /\ LastEvenMultiple(H, T2) >= 1
                => LET last == cutPoints[Len(cutPoints)] - cutPoints[Len(cutPoints) - 1]
                   IN 20 * last > 3 * T2 /\ 20 * last <= 13 * T2

\* an all-dark page was cut into three or more evenly spaced slices, the last
\* one shorter than the others
C6_Witness ==
    /\ Returned /\ H > 0 /\ T2 > 0 /\ T2 % 2 = 0 /\ AllNonWhite(imageData)
    /\ Len(cutPoints) >= 4
    /\ 2 * (H - cutPoints[Len(cutPoints) - 1]) < T2

----------------------------------------------------------------------------
(* C7 *)

\* C7: when the gap list is non-empty but every gap centre is closer than
\* 0.5*T to the page top, so that no gap is accepted, findCutPoints returns
\* what generateEvenCuts(H, T) returns.
C7_DegradesToEven ==
    (Finished /\ Len(gaps) > 0 /\ \A i \in 1..Len(gaps) : 2 * gaps[i].centerY2 < T2)
        => /\ Returned
           /\ cutPoints = generateEvenCuts(H, T2).cuts

----------------------------------------------------------------------------
(* C8 *)

\* C8: for T > 0 every slice returned by findCutPoints is at most 1.3*T tall,
\* whatever the page height and however sparse the gaps.
C8_SliceHeightBounded ==
    (Finished /\ T2 > 0)
        => /\ Returned
           /\ \A i \in 1..(Len(cutPoints) - 1) :
                  20 * (cutPoints[i + 1] - cutPoints[i]) <= 13 * T2

----------------------------------------------------------------------------
(* C9 *)

\* first rows (0-based) of the maximal runs of whitespace rows
RunStarts(rows) ==
    {s \in 0..(Len(rows) - 1) : rows[s + 1] /\ (s = 0 \/ ~rows[s])}

\* the row after the maximal run starting at s: the first non-whitespace
\* row below s, or the page height
RunEnd(rows, s) ==
    CHOOSE e \in (s + 1)..Len(rows) :
        /\ e = Len(rows) \/ ~rows[e + 1]
        /\ \A y \in s..(e - 1) : rows[y + 1]

GapsAt(s, e) == {i \in 1..Len(gaps) : gaps[i].startY = s /\ gaps[i].endY = e}

\* C9: no gap is shorter than minGapHeight, and every run of whitespace rows
\* that ends at a non-whitespace row, is at least minGapHeight tall and has
\* its centre strictly inside the edge margins is reported as exactly one gap.
C9_GapHeightFilter ==
    Detected =>
        /\ \A i \in 1..Len(gaps) :
              /\ gaps[i].height >= cfgUsed.minGapHeight
              /\ gaps[i].endY - gaps[i].startY >= cfgUsed.minGapHeight
        /\ \A s \in RunStarts(whitespaceRows) :
              LET e == RunEnd(whitespaceRows, s)
              IN (/\ e < H
                  /\ e - s >= cfgUsed.minGapHeight
                  /\ s + e > 2 * cfgUsed.edgeMargin
                  /\ s + e < 2 * (H - cfgUsed.edgeMargin))
                    => Cardinality(GapsAt(s, e)) = 1

\* with minGapHeight = 15, a page with a 10-row run, which is not reported,
\* and a 20-row run, which is
C9_Witness ==
    /\ Detected
    /\ cfgUsed.minGapHeight = 15
    /\ \E s \in RunStarts(whitespaceRows) :
          /\ RunEnd(whitespaceRows, s) - s = 10
          /\ GapsAt(s, s + 10) = {}
    /\ \E s \in RunStarts(whitespaceRows) :
          /\ RunEnd(whitespaceRows, s) - s = 20
          /\ GapsAt(s, s + 20) # {}

----------------------------------------------------------------------------
(* C10 *)

InsideMargins2(y2) == y2 > 2 * cfgUsed.edgeMargin /\ y2 < 2 * (H - cfgUsed.edgeMargin)

GapsInsideMargins == \A i \in 1..Len(gaps) : InsideMargins2(gaps[i].centerY2)

\* the doubled position, before Math.round, of the cut at index i of the
\* returned list (1 < i < length): the i-1st multiple of T on the even path,
\* the centre of the i-1st accepted gap on the gap path
UnroundedCut2(i) ==
    IF Len(gaps) = 0 THEN (i - 1) * T2 ELSE selectGaps(gaps, T2).accepted[i - 1]

----------------------------------------------------------------------------
(* C11 *)

\* the run of whitespace rows s..e-1 is tall enough and centred strictly
\* inside the edge margins
RunQualifies(s, e) ==
    /\ e - s >= cfgUsed.minGapHeight
    /\ s + e > 2 * cfgUsed.edgeMargin
    /\ s + e < 2 * (H - cfgUsed.edgeMargin)

\* C11: every maximal run of whitespace rows at least minGapHeight tall
\* whose centre lies strictly between edgeMargin and H - edgeMargin is
\* reported as a gap, also a run that reaches the last row of the page and
\* the single run of a page whose rows are all whitespace.
C11_EveryQualifyingRunReported ==
    Detected =>
        \A s \in RunStarts(whitespaceRows) :
            RunQualifies(s, RunEnd(whitespaceRows, s))
                => GapsAt(s, RunEnd(whitespaceRows, s)) # {}

----------------------------------------------------------------------------
(* C12: several calls, one after another, on the same loaded module *)

CallImages ==
    {imageOf(SmallWidth, kinds) :
        kinds \in {<<"dark", "white", "dark">>,
                   <<"white", "dark", "white", "dark">>,
                   <<"dark", "dark">>,
                   <<"speck", "white", "dark">>}}

CallTargets == {4, 6}

CallConfigs ==
    {<<>>,
     [minGapHeight |-> 1, edgeMargin |-> 0],
     [whitespaceThreshold |-> 50, minGapHeight |-> 1, edgeMargin |-> 0]}

CallsInit ==
    /\ pc = "call"
    /\ AppLoaded
    /\ StorageLoaded
    /\ defaultConfig = DEFAULT_CONFIG
    /\ callLog = <<>>
    /\ whitespaceRows = <<>>
    /\ gaps = <<>>
    /\ cutPoints = <<>>
    /\ slices = <<>>
    /\ caller = "findCutPoints"
    /\ imageData \in CallImages
    /\ targetSliceHeight2 \in CallTargets
    /\ config \in CallConfigs
    /\ viewportHeight = 0
    /\ scale = 0

\* one whole invocation of findCutPoints, lines 124-175, against the current
\* contents of the module-level defaults
Call ==
    /\ pc = "call"
    /\ LET m    == spreadConfig(defaultConfig, config)
           rows == detectWhitespaceRows(imageData, m.merged)
           gs   == findGaps(rows, imageData.height, m.merged)
           r    == selectCutPoints(gs, imageData.height, targetSliceHeight2)
       IN /\ whitespaceRows' = rows
          /\ gaps' = gs
          /\ cutPoints' = r.cuts
          /\ pc' = IF r.returned THEN "done" ELSE "hung"
          /\ defaultConfig' = m.defaults
          /\ config' = m.overrides
          /\ callLog' = Append(callLog,
                               [image       |-> imageData,
                                target2     |-> targetSliceHeight2,
                                config      |-> config,
                                configAfter |-> m.overrides,
                                returned    |-> r.returned,
                                cuts        |-> r.cuts])
    /\ UNCHANGED <<appVars, dbVars, caller, imageData, viewportHeight, scale,
                   targetSliceHeight2, slices>>

\* the caller invokes findCutPoints again with arguments of its choice
Again ==
    /\ pc = "done"
    /\ Len(callLog) < MaxCalls
    /\ imageData' \in CallImages
    /\ targetSliceHeight2' \in CallTargets
    /\ config' \in CallConfigs
    /\ pc' = "call"
    /\ whitespaceRows' = <<>>
    /\ gaps' = <<>>
    /\ cutPoints' = <<>>
    /\ UNCHANGED <<appVars, dbVars, caller, viewportHeight, scale, slices,
                   defaultConfig, callLog>>

CallsNext ==
    \/ Call
    \/ Again

SpecCalls == CallsInit /\ [][CallsNext]_vars

SameArguments(a, b) ==
    /\ a.image = b.image
    /\ a.target2 = b.target2
    /\ a.config = b.config

----------------------------------------------------------------------------
(* C13 *)

\* the gap's score equals min(height/50, 1) * (1 - |centerY/H - 0.5| * bias)
\* (as a fraction over 50 * 200 * H; the bias is in hundredths)
ScoreAsSpecified(g) ==
    /\ g.score.den = 50 * 200 * H
    /\ g.score.num = Min(g.height, 50)
                        * (200 * H - Abs(g.centerY2 - H) * cfgUsed.centerBias)

ScoreInUnitRange(g) ==
    /\ g.score.den > 0
    /\ g.score.num > 0
    /\ g.score.num <= g.score.den

\* C13: every reported gap has score min(height/50, 1) *
\* (1 - |centerY/H - 0.5| * centerBias), and that score is greater than 0 and
\* at most 1 under every configuration with centerBias >= 0.
C13_ScoreInUnitRange ==
    (Detected /\ ValidConfig(cfgUsed)) =>
        \A i \in DOMAIN gaps :
            ScoreAsSpecified(gaps[i]) /\ ScoreInUnitRange(gaps[i])

----------------------------------------------------------------------------
(* C14, C15 *)

\* channel c (0 = R, 1 = G, 2 = B, 3 = alpha) of the pixel in row y, column x
Channel(y, x, c) == imageData.data[(y * imageData.width + x) * 4 + c + 1]

\* columns of row y whose brightness (R + G + B) / 3 / 255 exceeds 0.9
WhiteColumns(y) ==
    {x \in 0..(imageData.width - 1) :
        10 * (Channel(y, x, 0) + Channel(y, x, 1) + Channel(y, x, 2)) > 9 * 765}

\* C14: row y is whitespace exactly when the fraction of its pixels whose
\* brightness (R+G+B)/3/255 is above 0.9 (a brightness of exactly 0.9 does not
\* count) is at least whitespaceThreshold; alpha plays no part.
C14_RowClassification ==
    Detected =>
        \A y \in 0..(H - 1) :
            whitespaceRows[y + 1]
                <=> 100 * Cardinality(WhiteColumns(y))
                        >= cfgUsed.whitespaceThreshold * imageData.width

\* a two-pixel row is whitespace at threshold 0.5 on the strength of a
\* transparent pixel just above brightness 0.9, next to an opaque one just below
C14_Witness ==
    /\ Detected
    /\ H = 1
    /\ imageData.width = 2
    /\ cfgUsed.whitespaceThreshold = 50
    /\ Channel(0, 0, 0) + Channel(0, 0, 1) + Channel(0, 0, 2) = 689
    /\ Channel(0, 0, 3) = 0
    /\ Channel(0, 1, 0) + Channel(0, 1, 1) + Channel(0, 1, 2) = 688
    /\ Channel(0, 1, 3) = 255
    /\ whitespaceRows[1]

\* row y has exactly one pixel that is not white
OneSpeck(y) == Cardinality(WhiteColumns(y)) = imageData.width - 1

\* C15: under the default threshold 0.95 a row with exactly one non-white
\* pixel is whitespace, whatever the width of the page.
C15_SpeckToleratedAtAnyWidth ==
    (Detected /\ cfgUsed.whitespaceThreshold = 95) =>
        \A y \in 0..(H - 1) : OneSpeck(y) => whitespaceRows[y + 1]

\* C15 (amended): under the default threshold 0.95 a row with exactly one
\* non-white pixel is whitespace on every page at least 20 pixels wide.
C15_SpeckToleratedFromWidth20 ==
    (Detected /\ cfgUsed.whitespaceThreshold = 95 /\ imageData.width >= 20) =>
        \A y \in 0..(H - 1) : OneSpeck(y) => whitespaceRows[y + 1]

C15_Witness ==
    /\ Detected
    /\ cfgUsed.whitespaceThreshold = 95
    /\ imageData.width = 20
    /\ OneSpeck(0)
    /\ whitespaceRows[1]

----------------------------------------------------------------------------
(* C16, C17 *)

\* unrounded doubled centres of the gaps the greedy pass accepted, in order
Accepted == selectGaps(gaps, T2).accepted

\* [0] followed by round(centerY) of every accepted gap
AcceptedCuts ==
    <<0>> \o [i \in 1..Len(Accepted) |-> (Accepted[i] + 1) \div 2]

\* H - lastCut > 0.3 * T, lastCut being the last accepted centre (0 if none)
RoomForLastSlice ==
    LET lastCut2 == IF Accepted = <<>> THEN 0 ELSE Accepted[Len(Accepted)]
    IN 20 * H - 10 * lastCut2 > 3 * T2

ScenarioBRun == imageData = ScenarioB /\ T2 = 700 /\ config = <<>>

\* C16: the 1000-row page with 20-row whitespace bands centred at 300 and 700,
\* T = 350, default configuration, yields exactly [0, 300, 700, 1000]; and in
\* general the result is 0, then round(centerY) of every accepted gap in
\* ascending order, then H.
C16_AcceptedCutsListed ==
    Returned =>
        /\ ScenarioBRun => cutPoints = <<0, 300, 700, 1000>>
        /\ Len(gaps) > 0 => cutPoints = AcceptedCuts \o <<H>>

\* C16 (amended): the scenario as above; in general the result is 0, then
\* round(centerY) of every accepted gap in ascending order, then H, except
\* that when H - lastCut <= 0.3 * T the last element of that list is replaced
\* by H instead of H being added after it.
C16_AcceptedCutsListedUnlessOverwritten ==
    Returned =>
        /\ ScenarioBRun => cutPoints = <<0, 300, 700, 1000>>
        /\ Len(gaps) > 0 =>
              cutPoints = IF RoomForLastSlice
                          THEN AcceptedCuts \o <<H>>
                          ELSE SubSeq(AcceptedCuts, 1, Len(AcceptedCuts) - 1)
                                   \o <<H>>

C16_Witness ==
    /\ Returned
    /\ ScenarioBRun
    /\ Accepted = <<600, 1400>>
    /\ cutPoints = <<0, 300, 700, 1000>>

ScenarioARun == imageData = ScenarioA /\ T2 = 600 /\ config = <<>>

\* C17: the all-whitespace 1000-row page with T = 300 and the default
\* configuration yields no gap and the even-spacing result
\* [0, 300, 600, 900, 1000].
C17_AllWhiteEvenCuts ==
    (Returned /\ ScenarioARun) =>
        /\ gaps = <<>>
        /\ cutPoints = <<0, 300, 600, 900, 1000>>

C17_Witness ==
    /\ Returned
    /\ ScenarioARun
    /\ \A y \in 1..H : whitespaceRows[y]
    /\ cutPoints = <<0, 300, 600, 900, 1000>>

----------------------------------------------------------------------------
(* C18 *)

\* the gaps, in the order reported (ascending), that the rule "centre at least
\* 0.5 * T below the last accepted centre, 0 at first" accepts; centres doubled
RECURSIVE AcceptedByDistance(_, _)
AcceptedByDistance(i, lastCut2) ==
    IF i > Len(gaps) THEN <<>>
    ELSE IF 2 * (gaps[i].centerY2 - lastCut2) >= T2
         THEN <<gaps[i].centerY2>> \o AcceptedByDistance(i + 1, gaps[i].centerY2)
         ELSE AcceptedByDistance(i + 1, lastCut2)

\* C18: scanning the gaps by ascending centre with lastCut = 0 at first, a
\* gap is accepted exactly when centerY - lastCut >= 0.5 * T, lastCut being
\* the unrounded centre of the gap accepted last; every cut between the
\* first and the last of the result is round(centerY) of an accepted gap;
\* the score of a gap has no influence on which gaps are accepted.
C18_GreedyAcceptance ==
    (Returned /\ Len(gaps) > 0) =>
        /\ Accepted = AcceptedByDistance(1, 0)
        /\ \A k \in 2..(Len(cutPoints) - 1) :
              cutPoints[k] = (AcceptedByDistance(1, 0)[k - 1] + 1) \div 2

\* some gap was accepted and a later one skipped for being too close
C18_Witness ==
    /\ Returned
    /\ Len(cutPoints) >= 3
    /\ Accepted # <<>>
    /\ \E i \in DOMAIN gaps :
          /\ gaps[i].centerY2 > Accepted[1]
          /\ \A k \in DOMAIN Accepted : Accepted[k] # gaps[i].centerY2

----------------------------------------------------------------------------
(* C19 *)

\* C19: after the scan, H is appended when H - lastCut > 0.3 * T; otherwise
\* the last element is overwritten with H, which removes the cut of the gap
\* accepted last, keeps every earlier cut, and is never applied to the
\* initial cut 0.
C19_FinalCutRule ==
    (Returned /\ Len(gaps) > 0) =>
        IF RoomForLastSlice
        THEN cutPoints = AcceptedCuts \o <<H>>
        ELSE /\ Accepted # <<>>
             /\ cutPoints = <<0>>
                    \o [i \in 1..(Len(Accepted) - 1) |-> (Accepted[i] + 1) \div 2]
                    \o <<H>>

----------------------------------------------------------------------------
(* C20 *)

\* C20: for T > 0, whenever at least three cut points are returned, the last
\* slice - H minus the second-to-last cut point as returned - is strictly
\* taller than 0.3 * T, on the gap path and on the even-spacing path.
C20_NoTrailingSliver ==
    (Returned /\ T2 > 0 /\ Len(cutPoints) >= 3) =>
        20 * (H - cutPoints[Len(cutPoints) - 1]) > 3 * T2

----------------------------------------------------------------------------
(* C21 *)

\* centres of the gaps that became cuts through the else-if branch
Forced == selectGaps(gaps, T2).forced

\* C21: the else-if branch (distance >= 1.0 * T and score > 0.2) is never
\* taken, for any page, configuration and target, positive, zero or negative.
C21_ForceCutBranchDead ==
    (Returned /\ Len(gaps) > 0) => Forced = <<>>

\* a gap with score above 0.2 was scanned and skipped for being closer than
\* 0.5 * T to the last cut
C21_Witness ==
    /\ Returned
    /\ Accepted # <<>>
    /\ \E i \in DOMAIN gaps :
          /\ 5 * gaps[i].score.num > gaps[i].score.den
          /\ gaps[i].centerY2 > Accepted[1]
          /\ \A k \in DOMAIN Accepted : Accepted[k] # gaps[i].centerY2

----------------------------------------------------------------------------
(* C22 *)

\* height of the k-th returned slice
SliceHeight(k) == cutPoints[k + 1] - cutPoints[k]

\* C22: for T > 0 and a non-empty gap list, every returned slice except the
\* last is at least 0.5 * T tall, also when gap centres on half-pixel
\* positions were rounded.
C22_MinSliceHeight ==
    (Returned /\ T2 > 0 /\ Len(gaps) > 0) =>
        \A k \in 1..(Len(cutPoints) - 2) : 4 * SliceHeight(k) >= T2

\* C22 (amended): for T > 0 and a non-empty gap list, every returned slice
\* except the last is at least 0.5 * T - 0.5 tall.
C22_MinSliceHeightUpToRounding ==
    (Returned /\ T2 > 0 /\ Len(gaps) > 0) =>
        \A k \in 1..(Len(cutPoints) - 2) : 4 * SliceHeight(k) >= T2 - 2

\* two accepted gaps, the first centred on a half pixel and rounded up, give
\* a slice between them shorter than 0.5 * T
C22_Witness ==
    /\ Returned
    /\ T2 > 0
    /\ Len(Accepted) >= 2
    /\ Len(cutPoints) >= 4
    /\ Accepted[1] % 2 = 1
    /\ 4 * SliceHeight(2) < T2

----------------------------------------------------------------------------
(* C23 *)

\* gap g is a maximal run of whitespace rows closed by a non-whitespace row
\* (rows of the page are 0-based, whitespaceRows is 1-based)
GapIsClosedRun(g) ==
    /\ 0 <= g.startY
    /\ g.startY < g.endY
    /\ g.endY <= H - 1
    /\ g.height = g.endY - g.startY
    /\ g.centerY2 = 2 * g.startY + g.height
    /\ \A y \in g.startY..(g.endY - 1) : whitespaceRows[y + 1]
    /\ ~whitespaceRows[g.endY + 1]
    /\ g.startY > 0 => ~whitespaceRows[g.startY]

\* C23: the gaps are in strictly ascending startY order, pairwise disjoint
\* and separated by at least one non-whitespace row; each is a run of
\* whitespace rows with 0 <= startY < endY <= H - 1, height = endY - startY,
\* centerY = startY + height / 2, closed by the non-whitespace row endY and
\* preceded by a non-whitespace row if any; sorting by centerY keeps the
\* order, and the rounded centres are pairwise distinct and below H.
C23_GapListStructure ==
    Detected =>
        /\ \A i \in DOMAIN gaps : GapIsClosedRun(gaps[i])
        /\ \A i \in 1..(Len(gaps) - 1) :
              /\ gaps[i].startY < gaps[i + 1].startY
              /\ gaps[i].endY < gaps[i + 1].startY
        /\ sortGaps(gaps) = gaps
        /\ \A i \in DOMAIN gaps : (gaps[i].centerY2 + 1) \div 2 < H
        /\ \A i, j \in DOMAIN gaps :
              i # j => (gaps[i].centerY2 + 1) \div 2 # (gaps[j].centerY2 + 1) \div 2

\* two gaps one row apart, the first starting at row 0 and centred on a half
\* pixel
C23_Witness ==
    /\ Detected
    /\ Len(gaps) >= 2
    /\ gaps[1].startY = 0
    /\ gaps[1].centerY2 % 2 = 1
    /\ gaps[2].startY = gaps[1].endY + 1

----------------------------------------------------------------------------
(* The application around the detector: processDocumentSlices, the slices
   store, handleFileSelect and handleBack *)

MaxRuns == 3       \* runs started one after another in one behaviour

OVERLAP_HEIGHT == 60

Max(a, b) == IF a >= b THEN a ELSE b

\* decimal digits of a non-negative integer, as template literals print it
DigitChars == <<"0", "1", "2", "3", "4", "5", "6", "7", "8", "9">>

RECURSIVE Digits(_)
Digits(n) ==
    IF n < 10 THEN <<DigitChars[n + 1]>>
    ELSE Digits(n \div 10) \o <<DigitChars[(n % 10) + 1]>>

\* `${documentId}-p${page.pageNumber}-s${sliceIdx}`, strings as character lists
sliceIdOf(documentId, pageNumber, sliceIndex) ==
    documentId \o <<"-", "p">> \o Digits(pageNumber)
               \o <<"-", "s">> \o Digits(sliceIndex)

\* createSliceCanvas: the crop taken from the page canvas, as the page row of
\* its top edge and its height
createSliceCanvas(startY, endY, overlapHeight) ==
    LET adjustedStartY == Max(0, startY - overlapHeight)
        sliceHeight == endY - adjustedStartY
    IN [top |-> adjustedStartY, height |-> sliceHeight]

\* isFirstSlice ? 0 : OVERLAP_HEIGHT
overlapFor(pageIndex, sliceIndex) ==
    IF sliceIndex = 0 /\ pageIndex = 0 THEN 0 ELSE OVERLAP_HEIGHT

\* the record handed to saveSlice (imageData is the blob of the crop)
storedSliceOf(documentId, page, sliceIndex, bounds, overlapHeight) ==
    [id            |-> sliceIdOf(documentId, page.pageNumber, sliceIndex),
     documentId    |-> documentId,
     pageNumber    |-> page.pageNumber,
     sliceIndex    |-> sliceIndex,
     imageData     |-> createSliceCanvas(bounds.startY, bounds.endY, overlapHeight),
     startY        |-> bounds.startY,
     endY          |-> bounds.endY,
     overlapHeight |-> overlapHeight]

\* the SliceInfo pushed onto allSlices (imageUrl stands for the same blob;
\* width and textItems are left out)
sliceInfoOf(rec, index, canvasHeight) ==
    [id            |-> rec.id,
     documentId    |-> rec.documentId,
     pageNumber    |-> rec.pageNumber,
     sliceIndex    |-> rec.sliceIndex,
     globalIndex   |-> index,
     imageUrl      |-> rec.imageData,
     startY        |-> rec.startY,
     endY          |-> rec.endY,
     overlapHeight |-> rec.overlapHeight,
     height        |-> canvasHeight]

\* db.put('slices', slice): the record replaces the one with the same key
putSlice(st, rec) == {r \in st : r.id # rec.id} \cup {rec}

\* getAllFromIndex('slices', 'by-document', documentId), as a set
slicesForDocument(st, documentId) == {r \in st : r.documentId = documentId}

\* clearSlicesForDocument that deletes nothing
clearSlicesForDocument_none(st, documentId) == st

\* clearSlicesForDocument
clearSlicesForDocument(st, documentId) == st \ slicesForDocument(st, documentId)

\* the comparator of loadSlicesFromStorage that looks at sliceIndex only
storedBefore_sliceOnly(a, b) == a.sliceIndex <= b.sliceIndex

\* the comparator of loadSlicesFromStorage: a sorts no later than b
storedBefore(a, b) ==
    IF a.pageNumber # b.pageNumber THEN a.pageNumber < b.pageNumber
    ELSE a.sliceIndex <= b.sliceIndex

RECURSIVE insertStored(_, _)
insertStored(sorted, rec) ==
    IF sorted = <<>> THEN <<rec>>
    ELSE IF storedBefore(sorted[Len(sorted)], rec) THEN Append(sorted, rec)
    ELSE Append(insertStored(SubSeq(sorted, 1, Len(sorted) - 1), rec),
                sorted[Len(sorted)])

\* Array.prototype.sort (stable) with that comparator
RECURSIVE sortStored(_)
sortStored(records) ==
    IF records = <<>> THEN <<>>
    ELSE insertStored(sortStored(SubSeq(records, 1, Len(records) - 1)),
                      records[Len(records)])

\* loadSlicesFromStorage: width and height "unknown from storage"
loadSlicesFromStorage(storedSlices) ==
    LET sorted == sortStored(storedSlices)
    IN [k \in 1..Len(sorted) |-> sliceInfoOf(sorted[k], k - 1, 0)]

\* every order in which a set of records can be handed over
Orderings(S) ==
    {f \in [1..Cardinality(S) -> S] : \A r \in S : \E k \in DOMAIN f : f[k] = r}

\* the slicing event numbering pages from 0
slicingEvent_zeroBased(page, total, slice) ==
    [phase |-> "slicing", currentPage |-> page - 1, totalPages |-> total,
     currentSlice |-> slice, totalSlices |-> 0]

\* progress events
slicingEvent(page, total, slice) ==
    [phase |-> "slicing", currentPage |-> page, totalPages |-> total,
     currentSlice |-> slice, totalSlices |-> 0]

completeEvent(total, slice) ==
    [phase |-> "complete", currentPage |-> total, totalPages |-> total,
     currentSlice |-> slice, totalSlices |-> slice]

\* rendered pages: 120 rows, solid or with a whitespace band at rows 50..69
SolidPage == imageOf(1, tallKinds(120, {}))
BandPage == imageOf(1, tallKinds(120, {Band(50, 20)}))

renderedPages(images) ==
    [k \in 1..Len(images) |-> [pageNumber |-> k, imageData |-> images[k]]]

Files ==
    {[id |-> <<"a">>, pages |-> renderedPages(<<SolidPage, BandPage>>)],
     [id |-> <<"b">>, pages |-> renderedPages(<<BandPage>>)]}

\* window.innerHeight
InnerHeights == {0, 40, 400}

DetectorUnused ==
    /\ caller = "none"
    /\ imageData = [width |-> 0, height |-> 0, data |-> <<>>]
    /\ viewportHeight = 0
    /\ scale = 0
    /\ targetSliceHeight2 = 0
    /\ config = <<>>
    /\ pc = "none"
    /\ whitespaceRows = <<>>
    /\ gaps = <<>>
    /\ cutPoints = <<>>
    /\ slices = <<>>
    /\ defaultConfig = DEFAULT_CONFIG
    /\ callLog = <<>>

AppInit ==
    /\ DetectorUnused
    /\ StorageLoaded
    /\ view = "upload"
    /\ document = NoDocument
    /\ error = FALSE
    /\ entry \in {"handleFileSelect", "processDocumentSlices"}
    /\ hpc = "idle"
    /\ file = NoFile
    /\ innerHeight = 0
    /\ store = {}
    /\ pageIdx = 0
    /\ sliceIdx = 0
    /\ sliceBounds = <<>>
    /\ allSlices = <<>>
    /\ globalIndex = 0
    /\ events = <<>>
    /\ completed = {}
    /\ selects = 0

\* handleFileSelect, lines 196-205: up to the first awaits
SelectFile ==
    /\ entry = "handleFileSelect"
    /\ view = "upload"
    /\ hpc = "idle"
    /\ selects < MaxRuns
    /\ file' \in Files
    /\ innerHeight' \in InnerHeights
    /\ error' = FALSE
    /\ view' = "processing"
    /\ hpc' = "getSlices"
    /\ selects' = selects + 1
    /\ UNCHANGED <<document, entry, store, pageIdx, sliceIdx, sliceBounds,
                   allSlices, globalIndex, events, completed>>
    /\ UNCHANGED <<detVars, dbVars>>

\* handleFileSelect, lines 208-213: stored slices exist; they are loaded in
\* whatever order the index returned them
CacheHit ==
    /\ hpc = "getSlices"
    /\ slicesForDocument(store, file.id) # {}
    /\ \E existingSlices \in Orderings(slicesForDocument(store, file.id)) :
          allSlices' = loadSlicesFromStorage(existingSlices)
    /\ hpc' = "cached"
    /\ UNCHANGED <<view, document, error, entry, file, innerHeight, store,
                   pageIdx, sliceIdx, sliceBounds, globalIndex, events,
                   completed, selects>>
    /\ UNCHANGED <<detVars, dbVars>>

\* handleFileSelect, line 210: no stored slice for the document
CacheMiss ==
    /\ hpc = "getSlices"
    /\ slicesForDocument(store, file.id) = {}
    /\ hpc' = "load"
    /\ UNCHANGED <<view, document, error, entry, file, innerHeight, store,
                   pageIdx, sliceIdx, sliceBounds, allSlices, globalIndex,
                   events, completed, selects>>
    /\ UNCHANGED <<detVars, dbVars>>

\* handleFileSelect, lines 226-263: the document is loaded, saved, rendered,
\* its text extracted, and processDocumentSlices is entered
LoadAndRender ==
    /\ hpc = "load"
    /\ hpc' = "clear"
    /\ pageIdx' = 0
    /\ sliceIdx' = 0
    /\ sliceBounds' = <<>>
    /\ allSlices' = <<>>
    /\ globalIndex' = 0
    /\ events' = <<>>
    /\ UNCHANGED <<view, document, error, entry, file, innerHeight, store,
                   completed, selects>>
    /\ UNCHANGED <<detVars, dbVars>>

\* processDocumentSlices called directly, with the store as earlier runs left it
CallProcess ==
    /\ entry = "processDocumentSlices"
    /\ hpc \in {"idle", "returned", "rejected"}
    /\ selects < MaxRuns
    /\ file' \in Files
    /\ innerHeight' \in InnerHeights
    /\ hpc' = "clear"
    /\ pageIdx' = 0
    /\ sliceIdx' = 0
    /\ sliceBounds' = <<>>
    /\ allSlices' = <<>>
    /\ globalIndex' = 0
    /\ events' = <<>>
    /\ selects' = selects + 1
    /\ UNCHANGED <<view, document, error, entry, store, completed>>
    /\ UNCHANGED <<detVars, dbVars>>

\* processDocumentSlices, line 261
ClearSlices ==
    /\ hpc = "clear"
    /\ store' = clearSlicesForDocument(store, file.id)
    /\ hpc' = "page"
    /\ UNCHANGED <<view, document, error, entry, file, innerHeight, pageIdx,
                   sliceIdx, sliceBounds, allSlices, globalIndex, events,
                   completed, selects>>
    /\ UNCHANGED <<detVars, dbVars>>

\* processDocumentSlices, lines 266-282: the head of the page loop; the
\* analysis of the page returns its slice bounds or never returns
StartPage ==
    /\ hpc = "page"
    /\ pageIdx < Len(file.pages)
    /\ events' = Append(events,
                        slicingEvent(pageIdx + 1, Len(file.pages), globalIndex))
    /\ LET page == file.pages[pageIdx + 1]
           r == findCutPoints(page.imageData, targetOfViewport(innerHeight, 2), <<>>)
       IN IF ~r.returned
          THEN /\ hpc' = "hung"
               /\ UNCHANGED <<sliceBounds, sliceIdx, pageIdx>>
          ELSE IF Len(slicesOf(r.cuts)) = 0
          THEN /\ hpc' = "page"
               /\ sliceBounds' = <<>>
               /\ sliceIdx' = 0
               /\ pageIdx' = pageIdx + 1
          ELSE /\ hpc' = "slice"
               /\ sliceBounds' = slicesOf(r.cuts)
               /\ sliceIdx' = 0
               /\ pageIdx' = pageIdx
    /\ UNCHANGED <<view, document, error, entry, file, innerHeight, store,
                   allSlices, globalIndex, completed, selects>>
    /\ UNCHANGED <<detVars, dbVars>>

\* processDocumentSlices, lines 284-332: one iteration of the slice loop
SaveSlice ==
    /\ hpc = "slice"
    /\ LET page == file.pages[pageIdx + 1]
           bounds == sliceBounds[sliceIdx + 1]
           rec == storedSliceOf(file.id, page, sliceIdx, bounds,
                                overlapFor(pageIdx, sliceIdx))
       IN /\ store' = putSlice(store, rec)
          /\ allSlices' = Append(allSlices,
                                 sliceInfoOf(rec, globalIndex, rec.imageData.height))
    /\ globalIndex' = globalIndex + 1
    /\ IF sliceIdx + 1 < Len(sliceBounds)
       THEN /\ sliceIdx' = sliceIdx + 1
            /\ UNCHANGED <<pageIdx, hpc>>
       ELSE /\ sliceIdx' = sliceIdx + 1
            /\ pageIdx' = pageIdx + 1
            /\ hpc' = "page"
    /\ UNCHANGED <<view, document, error, entry, file, innerHeight,
                   sliceBounds, events, completed, selects>>
    /\ UNCHANGED <<detVars, dbVars>>

\* processDocumentSlices, lines 336-344: the loop is over
Complete ==
    /\ hpc = "page"
    /\ pageIdx >= Len(file.pages)
    /\ events' = Append(events, completeEvent(Len(file.pages), globalIndex))
    /\ completed' = completed \cup {[documentId |-> file.id, slices |-> allSlices]}
    /\ hpc' = IF entry = "handleFileSelect" THEN "setDocument" ELSE "returned"
    /\ UNCHANGED <<view, document, error, entry, file, innerHeight, store,
                   pageIdx, sliceIdx, sliceBounds, allSlices, globalIndex, selects>>
    /\ UNCHANGED <<detVars, dbVars>>

\* handleFileSelect, lines 215-220 and 265-270
SetDocument ==
    /\ hpc \in {"cached", "setDocument"}
    /\ document' = [id |-> file.id, slices |-> allSlices,
                    fromCache |-> (hpc = "cached"), isNull |-> FALSE]
    /\ hpc' = "setView"
    /\ UNCHANGED <<view, error, entry, file, innerHeight, store, pageIdx,
                   sliceIdx, sliceBounds, allSlices, globalIndex, events,
                   completed, selects>>
    /\ UNCHANGED <<detVars, dbVars>>

\* handleFileSelect, lines 221 and 271
SetViewReader ==
    /\ hpc = "setView"
    /\ view' = "reader"
    /\ hpc' = "idle"
    /\ UNCHANGED <<document, error, entry, file, innerHeight, store, pageIdx,
                   sliceIdx, sliceBounds, allSlices, globalIndex, events,
                   completed, selects>>
    /\ UNCHANGED <<detVars, dbVars>>

\* the catch block of handleFileSelect without its setView('upload')
afterFailure_noView(v) == [error |-> TRUE, view |-> v]

\* the catch block of handleFileSelect, lines 273-277
afterFailure(v) == [error |-> TRUE, view |-> "upload"]

\* an awaited operation rejects: reading the file or the store, loading,
\* rendering, text extraction, clearing, canvasToBlob or saveSlice
Rejects ==
    /\ hpc \in {"getSlices", "cached", "load", "clear", "slice"}
    /\ IF entry = "handleFileSelect"
       THEN /\ error' = afterFailure(view).error
            /\ view' = afterFailure(view).view
            /\ hpc' = "idle"
       ELSE /\ hpc' = "rejected"
            /\ UNCHANGED <<error, view>>
    /\ UNCHANGED <<document, entry, file, innerHeight, store, pageIdx, sliceIdx,
                   sliceBounds, allSlices, globalIndex, events, completed,
                   selects>>
    /\ UNCHANGED <<detVars, dbVars>>

\* handleBack without its setDocument(null)
afterBack_keepDocument(doc) == [document |-> doc, view |-> "upload"]

\* handleBack, lines 281-287
afterBack(doc) == [document |-> NoDocument, view |-> "upload"]

\* the reader is rendered (line 318) and its onBack fires
HandleBack ==
    /\ view = "reader"
    /\ ~document.isNull
    /\ hpc = "idle"
    /\ document' = afterBack(document).document
    /\ view' = afterBack(document).view
    /\ UNCHANGED <<error, entry, hpc, file, innerHeight, store, pageIdx, sliceIdx,
                   sliceBounds, allSlices, globalIndex, events, completed,
                   selects>>
    /\ UNCHANGED <<detVars, dbVars>>

\* the button of the error toast, line 341
DismissError ==
    /\ error
    /\ error' = FALSE
    /\ UNCHANGED <<view, document, entry, hpc, file, innerHeight, store, pageIdx,
                   sliceIdx, sliceBounds, allSlices, globalIndex, events,
                   completed, selects>>
    /\ UNCHANGED <<detVars, dbVars>>

AppNext ==
    \/ SelectFile
    \/ CacheHit
    \/ CacheMiss
    \/ LoadAndRender
    \/ CallProcess
    \/ ClearSlices
    \/ StartPage
    \/ SaveSlice
    \/ Complete
    \/ SetDocument
    \/ SetViewReader
    \/ Rejects
    \/ HandleBack
    \/ DismissError

SpecApp == AppInit /\ [][AppNext]_vars

----------------------------------------------------------------------------
(* C24 *)

\* the slice is the first slice of the first page
FirstOfDocument(sl) == sl.pageNumber = 1 /\ sl.sliceIndex = 0

\* C24: every slice but the first slice of the first page is recorded with
\* overlapHeight 60, the first with 0; the cropped image is as tall as the
\* slice plus its overlapHeight and starts overlapHeight rows above startY,
\* also for the first slice of a later page and for any slice with
\* startY < 60.  (Slices reloaded from the store carry height 0, "unknown",
\* and are not judged.)
C24_OverlapPadding ==
    \A k \in DOMAIN allSlices :
        LET sl == allSlices[k]
        IN sl.height > 0 =>
              /\ sl.overlapHeight = IF FirstOfDocument(sl) THEN 0 ELSE OVERLAP_HEIGHT
              /\ sl.height = (sl.endY - sl.startY) + sl.overlapHeight
              /\ sl.imageUrl.top = sl.startY - sl.overlapHeight

----------------------------------------------------------------------------
(* C25 *)

IdsOf(sliceList) == {sliceList[k].id : k \in DOMAIN sliceList}

\* C25: whenever handleFileSelect opens the reader from stored slices, these
\* are the complete slice set of a processDocumentSlices run that returned;
\* a run that failed part-way never makes a later upload of the same file
\* open a partial document.
C25_CacheIsComplete ==
    (~document.isNull /\ document.fromCache) =>
        \E run \in completed :
            /\ run.documentId = document.id
            /\ IdsOf(run.slices) = IdsOf(document.slices)

----------------------------------------------------------------------------
(* C26 *)

\* processDocumentSlices is past its clearSlicesForDocument
AfterClear == hpc \in {"page", "slice", "hung", "returned", "setDocument"}

\* processDocumentSlices has returned
ProcessReturned == hpc \in {"returned", "setDocument"}

StoredIds(documentId) == {r.id : r \in slicesForDocument(store, documentId)}

\* the slices stored for the document are those of allSlices, one record each
StoredAreReturned ==
    /\ StoredIds(file.id) = IdsOf(allSlices)
    /\ Cardinality(slicesForDocument(store, file.id)) = Len(allSlices)
    /\ Cardinality(IdsOf(allSlices)) = Len(allSlices)

\* C26: from the moment the first new slice can be saved, the slices stored
\* for the document are exactly those the run has produced, under pairwise
\* distinct ids, so that after a successful return they are exactly the
\* returned slices; no step changes the stored slices of another document.
C26_StoredExactlyReturned ==
    /\ [](AfterClear => StoredAreReturned)
    /\ [][ {r \in store' : r.documentId # file'.id}
             = {r \in store : r.documentId # file'.id} ]_vars

\* a run returned for a document of which an earlier run had stored slices
\* under ids this run did not produce again, next to another document's slices
C26_Witness ==
    /\ ProcessReturned
    /\ \E r \in store : r.documentId # file.id
    /\ \E run \in completed :
          /\ run.documentId = file.id
          /\ ~(IdsOf(run.slices) \subseteq IdsOf(allSlices))

----------------------------------------------------------------------------
(* C27 *)

\* the fields of a slice that survive storage
Persistent(sl) ==
    [id |-> sl.id, globalIndex |-> sl.globalIndex, pageNumber |-> sl.pageNumber,
     sliceIndex |-> sl.sliceIndex, startY |-> sl.startY, endY |-> sl.endY,
     overlapHeight |-> sl.overlapHeight]

\* C27: the returned slices carry globalIndex = position in the list, in
\* page order then slice order, and loadSlicesFromStorage applied to the
\* stored records in any order gives the same sequence with the same
\* globalIndex, pageNumber, sliceIndex, startY, endY and overlapHeight.
C27_ReloadKeepsOrder ==
    ProcessReturned =>
        /\ \A k \in DOMAIN allSlices : allSlices[k].globalIndex = k - 1
        /\ \A k \in 1..(Len(allSlices) - 1) :
              \/ allSlices[k].pageNumber < allSlices[k + 1].pageNumber
              \/ /\ allSlices[k].pageNumber = allSlices[k + 1].pageNumber
                 /\ allSlices[k].sliceIndex < allSlices[k + 1].sliceIndex
        /\ \A order \in Orderings(slicesForDocument(store, file.id)) :
              LET loaded == loadSlicesFromStorage(order)
              IN /\ Len(loaded) = Len(allSlices)
                 /\ \A k \in DOMAIN loaded :
                       Persistent(loaded[k]) = Persistent(allSlices[k])

\* a returned run with slices on two pages, several on the first
C27_Witness ==
    /\ ProcessReturned
    /\ Len(allSlices) >= 4
    /\ allSlices[2].pageNumber = 1
    /\ allSlices[Len(allSlices)].pageNumber = 2

----------------------------------------------------------------------------
(* C28 *)

\* processDocumentSlices is running or has returned
InProcess == hpc \in {"clear", "page", "slice", "hung", "returned", "setDocument"}

\* number of slices of the pages before page p that the run has saved
SavedBeforePage(p) ==
    Cardinality({k \in DOMAIN allSlices : allSlices[k].pageNumber < p})

\* number of slices of page p that the run has saved
SavedOfPage(p) ==
    Cardinality({k \in DOMAIN allSlices : allSlices[k].pageNumber = p})

\* C28: the callback receives the 'slicing' events of pages 1, 2, ..., N in
\* that order, each before any slice of its page is saved and with
\* currentSlice = number of slices saved so far, then exactly one 'complete'
\* event, last, with currentPage = totalPages = N and currentSlice =
\* totalSlices = number of slices returned; nothing follows 'complete'.
C28_ProgressEvents ==
    InProcess =>
        LET N == Len(file.pages)
            slicing == {k \in DOMAIN events : events[k].phase = "slicing"}
        IN /\ \A k \in slicing :
                 /\ k <= N
                 /\ events[k].currentPage = k
                 /\ events[k].totalPages = N
                 /\ events[k].currentSlice = SavedBeforePage(k)
                 /\ events[k].totalSlices = 0
           /\ \A k \in DOMAIN events \ slicing :
                 /\ k = N + 1
                 /\ ProcessReturned
                 /\ events[k].phase = "complete"
                 /\ events[k].currentPage = N
                 /\ events[k].totalPages = N
                 /\ events[k].currentSlice = Len(allSlices)
                 /\ events[k].totalSlices = Len(allSlices)
           /\ \A p \in 1..N : SavedOfPage(p) > 0 => p \in slicing
           /\ ProcessReturned => Len(events) = N + 1

\* a two-page run returned; the second 'slicing' event reported the slices
\* of page 1 as already saved
C28_Witness ==
    /\ ProcessReturned
    /\ Len(events) = 3
    /\ events[2].currentSlice > 0
    /\ events[3].currentSlice > events[2].currentSlice

----------------------------------------------------------------------------
(* C29 *)

\* a call of handleFileSelect is between its first line and its last
HandlerRunning == entry = "handleFileSelect" /\ hpc # "idle"

\* the step is the start of a handleFileSelect call
HandlerStarts == entry = "handleFileSelect" /\ hpc = "idle" /\ hpc' # "idle"

\* the step is the end of a handleFileSelect call, by return or by catch
HandlerEnds == entry = "handleFileSelect" /\ hpc # "idle" /\ hpc' = "idle"

\* the step is handleBack: the reader is left
ReaderLeft == view = "reader" /\ view' # "reader"

\* C29: every handleFileSelect call moves the view to 'processing'; when the
\* call ends the view is no longer 'processing': it is 'reader' with a
\* non-null document, or 'upload' with the error message set; whenever the
\* view is 'reader' the document is non-null; handleBack leaves the view
\* 'upload' and the document null.
C29_ViewStateMachine ==
    /\ [](view = "reader" => ~document.isNull)
    /\ [](HandlerRunning => view = "processing")
    /\ [][HandlerStarts => view' = "processing"]_vars
    /\ [][HandlerEnds =>
            \/ view' = "reader" /\ ~document'.isNull /\ ~error'
            \/ view' = "upload" /\ error']_vars
    /\ [][ReaderLeft => view' = "upload" /\ document'.isNull]_vars

\* a call ended in the reader, handleBack returned to the upload view, and a
\* later call failed: the upload view with the error set and no document
C29_Witness ==
    /\ entry = "handleFileSelect"
    /\ hpc = "idle"
    /\ view = "upload"
    /\ error
    /\ document.isNull
    /\ selects >= 2
    /\ completed # {}

----------------------------------------------------------------------------
(* The storage connection: getDB and the operations that call it *)

\* number of storage operations started
MaxOps == 3

Ops == 1..MaxOps

\* the exported operations the reader fires: saveProgress from handleScroll
\* without await, saveHighlight from the note input and the text layer
OpKinds == {"saveProgress", "saveHighlight"}

NotStarted == [op |-> "none", at |-> "idle", opened |-> NoConnection]

DbInit ==
    /\ DetectorUnused
    /\ AppLoaded
    /\ dbInstance = NoConnection
    /\ openCalls = 0
    /\ dbpc = [c \in Ops |-> NotStarted]
    /\ dbGot = [c \in Ops |-> NoConnection]

\* getDB, lines 64-67: an operation calls getDB; with dbInstance set the call
\* returns it, otherwise it invokes openDB and suspends at the await
GetDB(c) ==
    /\ dbpc[c].at = "idle"
    /\ \E op \in OpKinds :
          IF dbInstance # NoConnection
          THEN /\ dbpc' = [dbpc EXCEPT ![c] = [op |-> op, at |-> "have",
                                               opened |-> NoConnection]]
               /\ dbGot' = [dbGot EXCEPT ![c] = dbInstance]
               /\ UNCHANGED openCalls
          ELSE /\ openCalls' = openCalls + 1
               /\ dbpc' = [dbpc EXCEPT ![c] = [op |-> op, at |-> "opening",
                                               opened |-> openCalls + 1]]
               /\ UNCHANGED dbGot
    /\ UNCHANGED dbInstance
    /\ UNCHANGED <<detVars, appVars>>

\* getDB, lines 67 and 93: the awaited openDB resolves; its connection is
\* assigned to dbInstance and returned
OpenResolves(c) ==
    /\ dbpc[c].at = "opening"
    /\ dbInstance' = dbpc[c].opened
    /\ dbGot' = [dbGot EXCEPT ![c] = dbpc[c].opened]
    /\ dbpc' = [dbpc EXCEPT ![c].at = "have"]
    /\ UNCHANGED openCalls
    /\ UNCHANGED <<detVars, appVars>>

\* getDB, line 67: the awaited openDB rejects; the operation rejects and
\* dbInstance keeps its value
OpenRejects(c) ==
    /\ dbpc[c].at = "opening"
    /\ dbpc' = [dbpc EXCEPT ![c].at = "failed"]
    /\ UNCHANGED <<dbInstance, openCalls, dbGot>>
    /\ UNCHANGED <<detVars, appVars>>

\* saveProgress, lines 172-183, and saveHighlight, line 194: the operation
\* writes through the connection it received
Put(c) ==
    /\ dbpc[c].at = "have"
    /\ dbpc' = [dbpc EXCEPT ![c].at = "done"]
    /\ UNCHANGED <<dbInstance, openCalls, dbGot>>
    /\ UNCHANGED <<detVars, appVars>>

DbNext ==
    \/ \E c \in Ops : GetDB(c)
    \/ \E c \in Ops : OpenResolves(c)
    \/ \E c \in Ops : OpenRejects(c)
    \/ \E c \in Ops : Put(c)

SpecDB == DbInit /\ [][DbNext]_vars

----------------------------------------------------------------------------
(* C30 *)

\* the operations that have received a connection from getDB
Holders == {c \in Ops : dbGot[c] # NoConnection}

\* C30: over every interleaving of storage operations openDB is invoked at
\* most once and every caller of getDB receives the same connection.
C30_SingleConnection ==
    /\ openCalls <= 1
    /\ \A c \in Holders : \A d \in Holders : dbGot[c] = dbGot[d]

====
